---- MODULE Spec2Model ----
(***************************************************************************)
(* Force-profile notebooks of ForceCalculations.                           *)
(*                                                                         *)
(*   two_three : src/two-three/two_three_forces.ipynb, the sweep over the  *)
(*               polarization mapping `pols` (cells at lines 113-237).     *)
(*   D2        : src/unnamed/part_000, the single 'Fz' evaluation on the   *)
(*               np.meshgrid(x, v) grid (cells at lines 26-183).           *)
(*                                                                         *)
(* Numbers: positions, velocities and forces are fixed-point integers,     *)
(* 90000 units to 1.0.  Arrays are records [shape, data] with data the     *)
(* elements in C order.                                                    *)
(***************************************************************************)
EXTENDS Integers, Sequences, FiniteSets, TLC

VARIABLES
    nb,        \* which notebook the kernel runs: "two_three" or "D2"
    pc,        \* position of the kernel in the notebook
    pols,      \* two_three: the configuration mapping, in insertion order
    vIn,       \* the velocity literal of the grid cell
    xIn,       \* D2: the position literal of the grid cell
    nameIn,    \* D2: the profile name literal
    eq,        \* D2: the model selector
    det,       \* detuning assigned at the top of the evaluation cell
    s,         \* saturation parameter assigned at the top of the cell
    hamiltonian,
    x,         \* D2: position sequence
    v,         \* velocity sequence
    X,         \* D2: meshgrid position array
    V,         \* D2: meshgrid velocity array
    obe,       \* two_three: result mapping label -> simulation object
    trap_D2,   \* D2: the simulation object (a mapping with at most one key)
    Fz_D2,     \* D2: the extracted z force array
    laserBeams,\* two_three: the beams built by the iteration in progress
    i,         \* two_three: number of completed iterations of the sweep loop
    it,        \* grid points stored by the evaluation in progress
    calls,     \* generate_force_profile invocations of the current run
    console,   \* progress lines printed in the current run
    curves,    \* curves handed to the plotting routine in the current run
    reads,     \* two_three: globals read so far by the iteration of a label
    errors,    \* exceptions raised in the current run
    run,       \* number of the current run of the evaluation cell
    prev       \* force arrays left by the previous run

vars == <<nb, pc, pols, vIn, xIn, nameIn, eq, det, s, hamiltonian, x, v, X, V,
          obe, trap_D2, Fz_D2, laserBeams, i, it, calls, console, curves,
          reads, errors, run, prev>>

-----------------------------------------------------------------------------
(* Bounds of the model. *)

MaxLabels == 2     \* largest number of entries of pols
MaxP == 2          \* largest number of positions of a varied grid
MaxV == 3          \* largest number of velocities of a varied grid
MaxRuns == 2       \* runs of the evaluation cell
MaxPolComp == 1    \* largest component of a polarization argument

-----------------------------------------------------------------------------
(* numpy helpers, as the notebooks use them. *)

RECURSIVE Prod(_)
Prod(shape) == IF shape = << >> THEN 1 ELSE Head(shape) * Prod(Tail(shape))

Zeros(shape) == [shape |-> shape, data |-> [k \in 1..Prod(shape) |-> 0]]

Array1(seq) == [shape |-> <<Len(seq)>>, data |-> seq]

\* np.linspace(start, stop, num): num points, the last one forced to stop.
Linspace(start, stop, num) ==
    IF num = 1 THEN <<start>>
    ELSE [k \in 1..num |->
            IF k = num THEN stop
            ELSE start + (k - 1) * ((stop - start) \div (num - 1))]

\* np.arange computes its length as ceil((stop - start) / step) in IEEE
\* doubles.  For these literals the double quotient is 7.000000000000001,
\* one step above the exact quotient 7, so the length is 8.
QuotientRoundsUp(start, stop, step) ==
    <<start, stop, step>> \in {<<-9000, -2700, 900>>, <<2700, 9000, 900>>}

ArangeLen(start, stop, step) ==
    ((stop - start) + step - 1) \div step
      + (IF QuotientRoundsUp(start, stop, step) THEN 1 ELSE 0)

\* Element k of np.arange is start + k * delta in doubles.  The model keeps
\* the decimal value, except where the double differs from the double of
\* that decimal and another grid value has the same decimal:
\* -0.1 + 7 * delta = -0.03000000000000004 < -0.03, whereas
\* 0.03 + 7 * delta = 0.1 exactly.
Drift(start, step, k) ==
    IF <<start, step, k>> = <<-9000, 900, 7>> THEN -1 ELSE 0

Arange(start, stop, step) ==
    [k \in 1..ArangeLen(start, stop, step) |->
        start + (k - 1) * step + Drift(start, step, k - 1)]

MeshgridShapeIJ(xs, vs) == <<Len(xs), Len(vs)>>

\* Shape of the arrays of np.meshgrid(x, v), default indexing 'xy'.
MeshgridShape(xs, vs) == <<Len(vs), Len(xs)>>

\* X, V = np.meshgrid(x, v): X[j][k] = x[k], V[j][k] = v[j].
MeshgridX(xs, vs) ==
    [shape |-> MeshgridShape(xs, vs),
     data  |-> [n \in 1..(Len(xs) * Len(vs)) |-> xs[((n - 1) % Len(xs)) + 1]]]

MeshgridV(xs, vs) ==
    [shape |-> MeshgridShape(xs, vs),
     data  |-> [n \in 1..(Len(xs) * Len(vs)) |-> vs[((n - 1) \div Len(xs)) + 1]]]

-----------------------------------------------------------------------------
(* Literals of the notebooks. *)

\* v of the sweep cell.
SweepV ==
    Arange(-459000, -9000, 9000) \o Arange(-9000, -2700, 900)
      \o Arange(-2700, -1800, 450) \o Arange(-1800, -900, 180)
      \o Arange(-900, -90, 90) \o Arange(90, 900, 90)
      \o Arange(900, 1800, 180) \o Arange(1800, 2700, 450)
      \o Arange(2700, 9000, 900) \o Arange(9000, 459000, 9000)

\* x and v of the D2 cell.
D2X == Linspace(0, 0, 1)

D2V == Linspace(900, 45000, 10) \o Linspace(45000, 225000, 5)

\* The polarization vectors by label; the first is the entry of pols.
SigmaPM == "$\\sigma^+\\sigma^-$"

PolOf(label) ==
    CASE label = SigmaPM      -> << <<0, 0, 1>>, <<1, 0, 0>> >>
      [] label = "$\\pi_x\\pi_y$"   -> << <<1, 0, 0>>, <<0, 1, 0>> >>
      [] label = "$\\phi=\\pi/4$"   -> << <<1, 0, 0>>, <<1, 1, 0>> >>
      [] OTHER                -> << <<0, 1, 0>>, <<0, 1, 0>> >>

Labels == {SigmaPM, "$\\pi_x\\pi_y$", "$\\phi=\\pi/4$", "default"}

HasPhi(label) == label = "$\\phi=\\pi/4$"      \* 'phi' in key

\* Sequences of n distinct elements of S: the keys of a dict literal.
DistinctSeqs(S, n) ==
    {q \in [1..n -> S] : \A a, b \in 1..n : a # b => q[a] # q[b]}

PolsChoices ==
    {[k \in 1..Len(q) |-> [key |-> q[k], pol |-> PolOf(q[k])]] :
        q \in UNION {DistinctSeqs(Labels, n) : n \in 0..MaxLabels}}

Ramp(n) == [k \in 1..n |-> 900 * k]

VChoices(literal) ==
    {literal, <<900, 45000, 225000>>} \cup {Ramp(n) : n \in 1..MaxV}

XChoices == {Linspace(0, 9000 * (p - 1), p) : p \in 1..MaxP}

Names == {"Fz", "default"}

EqChoices == {"obe", "rateeq", "OBE"}

EmptyMap == [k \in {} |-> 0]

\* no string given (the notebook has no such parameter)
None == "None"

\* a name the kernel has not bound yet; no action reads a variable in this
\* state (det and s, numbers, are 0 until the sweep cell assigns them)
Unbound == EmptyMap

-----------------------------------------------------------------------------
(* The simulation library, as the notebooks call it. *)

magField == <<0, 0, 0>>                \* constantMagneticField([0., 0., 0.])

return_hamiltonian(Fl, Delta) ==
    [Fg |-> Fl, Fe |-> Fl + 1, Delta |-> Delta]

return_lasersEither(delta, sat, pol) ==
    LET pol_coord == IF \/ pol[1][3] > 0 \/ pol[1][2] > 0
                        \/ pol[2][3] > 0 \/ pol[2][2] > 0
                     THEN "spherical" ELSE "cartesian"
    IN  << [kvec |-> <<0, 0, 1>>, pol |-> pol[1],
            pol_coord |-> pol_coord, delta |-> delta, s |-> sat],
           [kvec |-> <<0, 0, -1>>, pol |-> pol[2],
            pol_coord |-> pol_coord, delta |-> delta, s |-> sat] >>

return_lasers(delta, sat, pol) ==
    LET pol_coord == IF pol[1][3] > 0 \/ pol[1][2] > 0
                     THEN "spherical" ELSE "cartesian"
    IN  << [kvec |-> <<0, 0, 1>>, pol |-> pol[1],
            pol_coord |-> pol_coord, delta |-> delta, s |-> sat],
           [kvec |-> <<0, 0, -1>>, pol |-> pol[2],
            pol_coord |-> pol_coord, delta |-> delta, s |-> sat] >>

\* laserBeams_cooling_D2 + laserBeams_repump_D2
laserBeams_D2(sat, detuning) ==
    << [kvec |-> <<0, 0, 1>>, pol |-> <<0, 0, 1>>,
        pol_coord |-> "cooling", delta |-> detuning, s |-> sat],
       [kvec |-> <<0, 0, -1>>, pol |-> <<1, 0, 0>>,
        pol_coord |-> "repump", delta |-> detuning, s |-> sat] >>

hamiltonian_D2 == [Fg |-> 1, Fe |-> 3, Delta |-> 0]

\* pylcp.obe(...) / pylcp.rateeq(...): a fresh object without profiles.
NewTrap(model, beams, field, ham, re_im) ==
    [model |-> model, laserBeams |-> beams, magField |-> field,
     hamiltonian |-> ham, include_mag_forces |-> FALSE,
     transform_into_re_im |-> re_im, profile |-> EmptyMap]

\* The force at one grid point: a deterministic function of the object's
\* configuration, the position and the velocity.
BeamTerm(b) ==
    b.kvec[3] * (b.pol[1] + 2 * b.pol[2] + 4 * b.pol[3]) * b.s
      + (IF b.pol_coord \in {"spherical", "cooling"} THEN 8 ELSE 0) + b.delta

Evaluate(o, r, vel) ==
    << 0, 0,
       100 * (BeamTerm(o.laserBeams[1]) + BeamTerm(o.laserBeams[2])
                + o.hamiltonian.Delta + (IF o.model = "obe" THEN 0 ELSE 50))
         - o.laserBeams[1].s * vel[3] + r[3] + o.magField[3] >>

\* force_profile(R, V, ...): F starts as zeros of shape (3,) + grid shape.
NewProfile(R, Vel) ==
    [R |-> R, V |-> Vel,
     F |-> [shape |-> <<3>> \o R[3].shape,
            data  |-> [c \in 1..3 |-> Zeros(R[3].shape).data]]]

\* store_data at flat index n of the grid.
StoreData(p, n, f) ==
    [p EXCEPT !.F.data = [c \in 1..3 |-> [@[c] EXCEPT ![n] = f[c]]]]

PointR(p, n) == <<p.R[1].data[n], p.R[2].data[n], p.R[3].data[n]>>
PointV(p, n) == <<p.V[1].data[n], p.V[2].data[n], p.V[3].data[n]>>

\* profile.F[c]
FComp(F, c) == [shape |-> Tail(F.shape), data |-> F.data[c]]

-----------------------------------------------------------------------------
(* Initial state: the kernel before the evaluation cell is run. *)

Init ==
    /\ nb \in {"two_three", "D2"}
    /\ pc = "start"
    /\ pols \in (IF nb = "two_three" THEN PolsChoices ELSE {<< >>})
    /\ vIn \in VChoices(IF nb = "two_three" THEN SweepV ELSE D2V)
    /\ xIn \in (IF nb = "D2" THEN XChoices ELSE {<< >>})
    /\ nameIn \in (IF nb = "D2" THEN Names ELSE {None})
    /\ eq \in (IF nb = "D2" THEN EqChoices ELSE {None})
    /\ det = (IF nb = "D2" THEN -2 ELSE 0)
    /\ s = (IF nb = "D2" THEN 1 ELSE 0)
    /\ hamiltonian = (IF nb = "D2" THEN hamiltonian_D2 ELSE Unbound)
    /\ x = << >>
    /\ v = << >>
    /\ X = Unbound
    /\ V = Unbound
    /\ obe = EmptyMap
    /\ trap_D2 = Unbound
    /\ Fz_D2 = Unbound
    /\ laserBeams = Unbound
    /\ reads = EmptyMap
    /\ i = 0
    /\ it = 0
    /\ calls = << >>
    /\ console = 0
    /\ curves = << >>
    /\ errors = 0
    /\ run = 1
    /\ prev = Unbound

-----------------------------------------------------------------------------
(* two_three: the sweep cell. *)

SweepSatScaled(old) == IF run = 1 THEN 1 ELSE 2 * old

\* s = 1.0
SweepSat(old) == 1

\* the key under which the loop stores the object of key_beam
StoreKeyFixed(key_beam) == "molasses"

StoreKey(key_beam) == key_beam

SweepArgsHead(vs) ==
    [R |-> <<Zeros(<<1>>), Zeros(<<1>>), Zeros(<<1>>)>>,
     V |-> <<Zeros(<<1>>), Zeros(<<1>>), Array1(<<vs[1]>>)>>]

SweepArgsPoint(vs) ==
    [R |-> <<Zeros(<<1>>), Zeros(<<1>>), Zeros(<<1>>)>>,
     V |-> <<Zeros(<<Len(vs)>>), Zeros(<<Len(vs)>>), Array1(vs)>>]

\* the position and velocity arguments of generate_force_profile
SweepArgs(vs) ==
    [R |-> <<Zeros(<<Len(vs)>>), Zeros(<<Len(vs)>>), Zeros(<<Len(vs)>>)>>,
     V |-> <<Zeros(<<Len(vs)>>), Zeros(<<Len(vs)>>), Array1(vs)>>]

\* det, s, hamiltonian, v and obe = {} at the top of the cell
SweepStart ==
    /\ nb = "two_three"
    /\ pc = "start"
    /\ pc' = "loop"
    /\ det' = -2
    /\ s' = SweepSat(s)
    /\ hamiltonian' = return_hamiltonian(2, det')
    /\ v' = vIn
    /\ obe' = EmptyMap
    /\ i' = 0
    /\ it' = 0
    /\ calls' = << >>
    /\ console' = 0
    /\ curves' = << >>
    /\ reads' = EmptyMap
    /\ UNCHANGED <<nb, pols, vIn, xIn, nameIn, eq, x, X, V, trap_D2, Fz_D2,
                   laserBeams, errors, run, prev>>

\* key_beam of the iteration in progress
CurKey == pols[i + 1].key

LoopExhaustedEarly == i >= Len(pols) - 1

\* for key_beam in pols: every key has been taken
LoopExhausted == i = Len(pols)

PolsAfterLasersSwapped(p, k) ==
    [p EXCEPT ![k].pol = <<p[k].pol[2], p[k].pol[1]>>]

\* pols after return_lasers(0., s, pol=pols[key_beam]): pol[0] and pol[1]
\* are read and put into the beam dictionaries, nothing is assigned
PolsAfterLasers(p, k) == p

\* the globals the iteration reads up to obe[key_beam] = pylcp.obe(...)
ConstructReads == {"pols", "s", "magField", "hamiltonian"}

\* the globals the generate_force_profile arguments read
CallReads == {"v"}

\* for key_beam in pols: laserBeams = ...; obe[key_beam] = pylcp.obe(...)
Construct ==
    /\ nb = "two_three"
    /\ pc = "loop"
    /\ ~LoopExhausted
    /\ pc' = "call"
    /\ laserBeams' = return_lasers(0, s, pols[i + 1].pol)
    /\ pols' = PolsAfterLasers(pols, i + 1)
    /\ obe' = (StoreKey(CurKey) :>
                 NewTrap("obe", laserBeams', magField, hamiltonian, TRUE))
              @@ obe
    /\ reads' = (CurKey :> ConstructReads) @@ reads
    /\ UNCHANGED <<nb, vIn, xIn, nameIn, eq, det, s, hamiltonian, x, v,
                   X, V, trap_D2, Fz_D2, i, it, calls, console, curves,
                   errors, run, prev>>

\* name='molasses'
SweepProfileName == "molasses"

\* obe[key_beam].generate_force_profile(..., name='molasses', ...) is entered
CallBegin ==
    /\ nb = "two_three"
    /\ pc = "call"
    /\ calls' = Append(calls, [key |-> CurKey, R |-> SweepArgs(v).R,
                               V |-> SweepArgs(v).V,
                               name |-> SweepProfileName,
                               progress_bar |-> TRUE])
    /\ reads' = [reads EXCEPT ![CurKey] = @ \cup CallReads]
    /\ it' = 0
    /\ pc' = "invoked"
    /\ UNCHANGED <<nb, pols, vIn, xIn, nameIn, eq, det, s, hamiltonian, x, v,
                   X, V, obe, trap_D2, Fz_D2, laserBeams, i, console, curves,
                   errors, run, prev>>

-----------------------------------------------------------------------------
(* The evaluation in progress, in either notebook. *)

CurCall == calls[Len(calls)]

CurObj == IF nb = "two_three" THEN obe[StoreKey(CurKey)] ELSE trap_D2

SetCurObj(o) ==
    IF nb = "two_three"
    THEN obe' = [obe EXCEPT ![StoreKey(CurKey)] = o] /\ UNCHANGED trap_D2
    ELSE trap_D2' = o /\ UNCHANGED obe

GridSize == Prod(CurCall.R[3].shape)

EvaluationDoneAsync == TRUE

\* the call is synchronous: the statement after it runs when every grid
\* point has been evaluated
EvaluationDone == it = GridSize

\* self.profile[name] = force_profile(R, V, ...)
CreateProfile ==
    /\ pc = "invoked"
    /\ SetCurObj([CurObj EXCEPT !.profile =
                    (CurCall.name :> NewProfile(CurCall.R, CurCall.V)) @@ @])
    /\ pc' = "evaluating"
    /\ UNCHANGED <<nb, pols, vIn, xIn, nameIn, eq, det, s, hamiltonian, x, v,
                   X, V, Fz_D2, i, it, calls, console, curves, errors, run,
                   prev,
                   laserBeams, reads>>

\* one grid point of the evaluation: the force is computed and stored, and
\* the progress bar is updated
EvalPoint ==
    /\ pc = "evaluating"
    /\ it < GridSize
    /\ LET p == CurObj.profile[CurCall.name]
           f == Evaluate(CurObj, PointR(p, it + 1), PointV(p, it + 1))
       IN  SetCurObj([CurObj EXCEPT !.profile[CurCall.name] =
                                        StoreData(p, it + 1, f)])
    /\ it' = it + 1
    /\ console' = console + (IF CurCall.progress_bar THEN 1 ELSE 0)
    /\ UNCHANGED <<nb, pc, pols, vIn, xIn, nameIn, eq, det, s, hamiltonian,
                   x, v, X, V, Fz_D2, i, calls, curves, errors, run, prev,
                   laserBeams, reads>>

FailurePcRetry == "call"

\* where the kernel is after the evaluation raised: no try/except around it
FailurePc == "aborted"

\* the evaluation raises, before or between grid points
CallFail ==
    /\ \/ pc = "invoked"
       \/ pc = "evaluating" /\ it < GridSize
    /\ errors' = errors + 1
    /\ pc' = FailurePc
    /\ UNCHANGED <<nb, pols, vIn, xIn, nameIn, eq, det, s, hamiltonian, x, v,
                   X, V, obe, trap_D2, Fz_D2, i, it, calls, console, curves,
                   run, prev,
                   laserBeams, reads>>

\* two_three: generate_force_profile returns, the loop goes to the next key
CallReturn ==
    /\ nb = "two_three"
    /\ pc = "evaluating"
    /\ EvaluationDone
    /\ i' = i + 1
    /\ pc' = "loop"
    /\ UNCHANGED <<nb, pols, vIn, xIn, nameIn, eq, det, s, hamiltonian, x, v,
                   X, V, obe, trap_D2, Fz_D2, it, calls, console, curves,
                   errors, run, prev,
                   laserBeams, reads>>

\* two_three: the loop is exhausted, the kernel goes on to the plot cell
LoopExit ==
    /\ nb = "two_three"
    /\ pc = "loop"
    /\ LoopExhausted
    /\ pc' = "plot"
    /\ UNCHANGED <<nb, pols, vIn, xIn, nameIn, eq, det, s, hamiltonian, x, v,
                   X, V, obe, trap_D2, Fz_D2, i, it, calls, console, curves,
                   errors, run, prev,
                   laserBeams, reads>>

-----------------------------------------------------------------------------
(* two_three: the plot cell. *)

RECURSIVE Dedupe(_)
Dedupe(q) ==
    IF q = << >> THEN << >>
    ELSE LET r == Dedupe(SubSeq(q, 1, Len(q) - 1))
         IN  IF \E k \in 1..Len(r) : r[k] = q[Len(q)]
             THEN r ELSE Append(r, q[Len(q)])

\* the keys of obe in insertion order
ObeKeys == Dedupe([k \in 1..i |-> StoreKey(pols[k].key)])

PlotProfileNameFz == "Fz"

\* the name in obe[key].profile['molasses']
PlotProfileName == "molasses"

\* for key in obe: ax.plot(v, obe[key].profile['molasses'].F[2], ...) and
\* the same on axins
PlotKey ==
    /\ nb = "two_three"
    /\ pc = "plot"
    /\ Len(curves) < 2 * Len(ObeKeys)
    /\ LET key == ObeKeys[(Len(curves) \div 2) + 1]
           linestyle == IF HasPhi(key) THEN "--" ELSE "-"
           y == FComp(obe[key].profile[PlotProfileName].F, 3)
       IN  curves' = curves \o
             << [axes |-> "ax", x |-> Array1(v), y |-> y, label |-> key,
                 linestyle |-> linestyle],
                [axes |-> "axins", x |-> Array1(v), y |-> y, label |-> key,
                 linestyle |-> linestyle] >>
    /\ UNCHANGED <<nb, pc, pols, vIn, xIn, nameIn, eq, det, s, hamiltonian,
                   x, v, X, V, obe, trap_D2, Fz_D2, i, it, calls, console,
                   errors, run, prev,
                   laserBeams, reads>>

\* plt.savefig("force.png")
SaveFig ==
    /\ nb = "two_three"
    /\ pc = "plot"
    /\ Len(curves) = 2 * Len(ObeKeys)
    /\ pc' = "done"
    /\ UNCHANGED <<nb, pols, vIn, xIn, nameIn, eq, det, s, hamiltonian, x, v,
                   X, V, obe, trap_D2, Fz_D2, i, it, calls, console, curves,
                   errors, run, prev,
                   laserBeams, reads>>

\* the force arrays of the result mapping
Forces(m) == [l \in DOMAIN m |-> m[l].profile["molasses"].F]

\* the sweep cell is executed again in the same kernel
Rerun ==
    /\ nb = "two_three"
    /\ pc = "done"
    /\ run < MaxRuns
    /\ prev' = Forces(obe)
    /\ run' = run + 1
    /\ pc' = "start"
    /\ UNCHANGED <<nb, pols, vIn, xIn, nameIn, eq, det, s, hamiltonian, x, v,
                   X, V, obe, trap_D2, Fz_D2, i, it, calls, console, curves,
                   errors,
                   laserBeams, reads>>

-----------------------------------------------------------------------------
(* D2: the evaluation cell and the plot cell. *)

TrapModelObeOnly(e) == IF e = "obe" THEN "obe" ELSE "rateeq"

\* if eq == "rateeq": pylcp.rateeq(...) else: pylcp.obe(...)
TrapModel(e) == IF e = "rateeq" THEN "rateeq" ELSE "obe"

\* x, v, X, V = np.meshgrid(x, v), and the trap selected by eq
D2Grid ==
    /\ nb = "D2"
    /\ pc = "start"
    /\ x' = xIn
    /\ v' = vIn
    /\ X' = MeshgridX(x', v')
    /\ V' = MeshgridV(x', v')
    /\ trap_D2' = NewTrap(TrapModel(eq), laserBeams_D2(s, det), magField,
                          hamiltonian, FALSE)
    /\ pc' = "call"
    /\ UNCHANGED <<nb, pols, vIn, xIn, nameIn, eq, det, s, hamiltonian, obe,
                   Fz_D2, i, it, calls, console, curves, errors, run, prev,
                   laserBeams, reads>>

\* trap_D2.generate_force_profile([0, 0, X], [0, 0, V], name='Fz', ...)
D2CallBegin ==
    /\ nb = "D2"
    /\ pc = "call"
    /\ calls' = Append(calls,
                  [key |-> "trap_D2",
                   R |-> <<Zeros(X.shape), Zeros(X.shape), X>>,
                   V |-> <<Zeros(V.shape), Zeros(V.shape), V>>,
                   name |-> nameIn, progress_bar |-> TRUE])
    /\ it' = 0
    /\ pc' = "invoked"
    /\ UNCHANGED <<nb, pols, vIn, xIn, nameIn, eq, det, s, hamiltonian, x, v,
                   X, V, obe, trap_D2, Fz_D2, i, console, curves, errors,
                   run, prev,
                   laserBeams, reads>>

\* the name in trap_D2.profile['Fz']
D2ReadName == nameIn

\* the call returns; Fz_D2 = trap_D2.profile['Fz'].F[2]
D2Extract ==
    /\ nb = "D2"
    /\ pc = "evaluating"
    /\ EvaluationDone
    /\ pc' = "plot"
    /\ Fz_D2' = FComp(trap_D2.profile[D2ReadName].F, 3)
    /\ UNCHANGED <<nb, pols, vIn, xIn, nameIn, eq, det, s, hamiltonian, x, v,
                   X, V, obe, trap_D2, i, it, calls, console, curves, errors,
                   run, prev,
                   laserBeams, reads>>

\* ax.plot(V, Fz_D2, '.')
D2Plot ==
    /\ nb = "D2"
    /\ pc = "plot"
    /\ curves' = Append(curves, [axes |-> "ax", x |-> V, y |-> Fz_D2,
                                 label |-> nameIn, linestyle |-> "."])
    /\ pc' = "done"
    /\ UNCHANGED <<nb, pols, vIn, xIn, nameIn, eq, det, s, hamiltonian, x, v,
                   X, V, obe, trap_D2, Fz_D2, i, it, calls, console, errors,
                   run, prev,
                   laserBeams, reads>>

-----------------------------------------------------------------------------

Next ==
    \/ SweepStart
    \/ Construct
    \/ CallBegin
    \/ CreateProfile
    \/ EvalPoint
    \/ CallFail
    \/ CallReturn
    \/ LoopExit
    \/ PlotKey
    \/ SaveFig
    \/ Rerun
    \/ D2Grid
    \/ D2CallBegin
    \/ D2Extract
    \/ D2Plot

Spec == Init /\ [][Next]_vars

-----------------------------------------------------------------------------
(* The notebooks with an evaluation that always returns.  The kernel runs   *)
(* a started cell to its end; executing the cell again is up to the user.  *)

KernelStep ==
    \/ SweepStart
    \/ Construct
    \/ CallBegin
    \/ CreateProfile
    \/ EvalPoint
    \/ CallReturn
    \/ LoopExit
    \/ PlotKey
    \/ SaveFig
    \/ D2Grid
    \/ D2CallBegin
    \/ D2Extract
    \/ D2Plot

NextNoFail == KernelStep \/ Rerun

\* every kernel step moves pc, it or curves
progress == <<pc, it, curves>>

SpecNoFail == Init /\ [][NextNoFail]_vars /\ WF_progress(KernelStep)

-----------------------------------------------------------------------------
(* return_lasers on its own, over polarization arguments with components   *)
(* in -MaxPolComp..MaxPolComp.                                             *)

PolVectors ==
    {<<a, b, c>> : a, b, c \in (0 - MaxPolComp)..MaxPolComp}

InitLasers ==
    /\ nb = "return_lasers"
    /\ pc = "lasers"
    /\ pols \in {<<[key |-> "pol", pol |-> <<p, q>>]>> :
                    p \in PolVectors, q \in PolVectors}
    /\ vIn = << >>
    /\ xIn = << >>
    /\ nameIn = None
    /\ eq = None
    /\ det \in {-2, 0}
    /\ s \in {1, 2}
    /\ hamiltonian = Unbound
    /\ x = << >>
    /\ v = << >>
    /\ X = Unbound
    /\ V = Unbound
    /\ obe = EmptyMap
    /\ trap_D2 = Unbound
    /\ Fz_D2 = Unbound
    /\ laserBeams = Unbound
    /\ reads = EmptyMap
    /\ i = 0
    /\ it = 0
    /\ calls = << >>
    /\ console = 0
    /\ curves = << >>
    /\ errors = 0
    /\ run = 1
    /\ prev = Unbound

\* laserBeams = return_lasers(delta, s, pol)
LasersCall ==
    /\ nb = "return_lasers"
    /\ pc = "lasers"
    /\ laserBeams' = return_lasers(det, s, pols[1].pol)
    /\ pc' = "done"
    /\ UNCHANGED <<nb, pols, vIn, xIn, nameIn, eq, det, s, hamiltonian, x, v,
                   X, V, obe, trap_D2, Fz_D2, i, it, calls, console, curves,
                   reads, errors, run, prev>>

NextLasers == LasersCall

SpecLasers == InitLasers /\ [][NextLasers]_vars

-----------------------------------------------------------------------------
(* Properties. *)

SweepSucceeded == nb = "two_three" /\ pc \in {"plot", "done"}

D2Succeeded == nb = "D2" /\ pc \in {"plot", "done"}

PolKeys == {pols[k].key : k \in 1..Len(pols)}

CallsOf(key) == {n \in 1..Len(calls) : calls[n].key = key}

\* C1: in a successful run of the sweep, generate_force_profile is invoked
\* exactly once for every label of pols, and that invocation receives the
\* whole velocity grid with position arrays of the same shape.
C1_OnceWithFullGrid ==
    SweepSucceeded =>
        /\ Len(calls) = Len(pols)
        /\ \A k \in 1..Len(pols) :
             /\ Cardinality(CallsOf(pols[k].key)) = 1
             /\ \A n \in CallsOf(pols[k].key) :
                  /\ calls[n].V[3].data = vIn
                  /\ \A c \in 1..3 :
                       /\ calls[n].R[c].shape = <<Len(vIn)>>
                       /\ calls[n].V[c].shape = <<Len(vIn)>>

C1_Witness ==
    /\ SweepSucceeded
    /\ pc = "done"
    /\ Len(pols) = 2
    /\ Len(vIn) > 1
    /\ Len(calls) = 2

\* C2: after a successful run of the sweep the result mapping has one entry
\* per label of pols, its key set is the label set, and the entry of a label
\* is the object built from that label's polarizations.
C2_OneEntryPerLabel ==
    SweepSucceeded =>
        /\ DOMAIN obe = PolKeys
        /\ Cardinality(DOMAIN obe) = Len(pols)
        /\ \A k \in 1..Len(pols) :
             /\ obe[pols[k].key].laserBeams[1].pol = pols[k].pol[1]
             /\ obe[pols[k].key].laserBeams[2].pol = pols[k].pol[2]

C2_Witness ==
    /\ SweepSucceeded
    /\ pc = "done"
    /\ Len(pols) = 2
    /\ Cardinality(DOMAIN obe) = 2

\* C3: the grid handed to a generate_force_profile call contains no
\* (position, velocity) pair twice.
C3_NoRepeatedPair ==
    \A n \in 1..Len(calls) :
        \A a, b \in 1..Prod(calls[n].R[3].shape) :
            a # b => <<calls[n].R[3].data[a], calls[n].V[3].data[a]>>
                       # <<calls[n].R[3].data[b], calls[n].V[3].data[b]>>

C5_Scenario ==
    /\ D2Succeeded
    /\ vIn = <<900, 45000, 225000>>
    /\ xIn = <<0>>
    /\ nameIn = "default"

\* C5 as stated: in the scenario the force array has shape (3, 1, 3).
C5_Shape313 ==
    C5_Scenario =>
        /\ DOMAIN trap_D2.profile = {"default"}
        /\ trap_D2.profile["default"].F.shape = <<3, 1, 3>>

\* C5: for velocities [0.01, 0.5, 2.5], position [0.0] and the name
\* "default", the profile mapping has the one entry "default" and its force
\* array has shape (3, 3, 1): the velocity axis precedes the position axis.
C5_Shape331 ==
    C5_Scenario =>
        /\ DOMAIN trap_D2.profile = {"default"}
        /\ trap_D2.profile["default"].F.shape = <<3, 3, 1>>

C5_Witness ==
    /\ C5_Scenario
    /\ pc = "done"
    /\ trap_D2.profile["default"].F.shape = <<3, 3, 1>>

\* C6: on success every point of the grid has its force value in the result
\* of every label (and in the D2 profile): no result covers part of the grid.
C6_NoPartialResult ==
    /\ SweepSucceeded =>
         \A k \in 1..Len(pols) :
            /\ pols[k].key \in DOMAIN obe
            /\ "molasses" \in DOMAIN obe[pols[k].key].profile
            /\ LET o == obe[pols[k].key]
                   F == o.profile["molasses"].F
               IN  \A c \in 1..3 :
                     /\ Len(F.data[c]) = Len(vIn)
                     /\ \A n \in 1..Len(vIn) :
                          F.data[c][n] =
                            Evaluate(o, <<0, 0, 0>>, <<0, 0, vIn[n]>>)[c]
    /\ D2Succeeded =>
         LET F == trap_D2.profile[nameIn].F
         IN  \A c \in 1..3 :
               /\ Len(F.data[c]) = Len(xIn) * Len(vIn)
               /\ \A a \in 1..Len(xIn), b \in 1..Len(vIn) :
                    \E n \in 1..Len(F.data[c]) :
                       /\ X.data[n] = xIn[a]
                       /\ V.data[n] = vIn[b]
                       /\ F.data[c][n] =
                            Evaluate(trap_D2, <<0, 0, xIn[a]>>,
                                     <<0, 0, vIn[b]>>)[c]

C6_Witness ==
    /\ SweepSucceeded
    /\ pc = "done"
    /\ Len(pols) = 2
    /\ vIn = SweepV

\* C7: once the evaluation has raised, nothing more happens in the run: no
\* further invocation (no retry, no later configuration), no plotting, and
\* the kernel stays aborted.
C7_AbortNoRetry ==
    /\ [](errors > 0 =>
            /\ pc = "aborted"
            /\ errors = 1
            /\ curves = << >>
            /\ Cardinality(CallsOf(CurCall.key)) = 1
            /\ (nb = "two_three" => Len(calls) = i + 1))
    /\ [][errors > 0 =>
            /\ calls' = calls
            /\ curves' = curves
            /\ obe' = obe
            /\ pc' = pc]_vars

C7_Witness ==
    /\ nb = "two_three"
    /\ pc = "aborted"
    /\ errors = 1
    /\ Len(pols) = 2
    /\ i = 0
    /\ Len(calls) = 1

\* C8: a second run of the sweep cell with the same inputs leaves the same
\* force arrays under every label as the first run.
C8_Idempotent ==
    (SweepSucceeded /\ run > 1) => Forces(obe) = prev

C8_Witness ==
    /\ SweepSucceeded
    /\ pc = "done"
    /\ run = 2
    /\ Len(pols) = 2
    /\ Len(vIn) > 1
    /\ Forces(obe) = prev

Returned(key) == \E k \in 1..i : pols[k].key = key

\* C10 as stated: from the moment a label's entry is in the result mapping,
\* no step of the run changes it.
C10_FinalOnceWritten ==
    [][\A l \in DOMAIN obe :
          pc # "start" => (l \in DOMAIN obe' /\ obe'[l] = obe[l])]_vars

\* C10: from the moment the evaluation of a label has returned, no later
\* step of the run (sweep or plot) changes the label's entry or its profile;
\* the D2 trap and its profile do not change after the call has returned.
C10_FinalOnceReturned ==
    [][/\ \A k \in 1..i :
            (nb = "two_three" /\ pc # "start") =>
               /\ pols[k].key \in DOMAIN obe
               /\ pols[k].key \in DOMAIN obe'
               /\ obe'[pols[k].key] = obe[pols[k].key]
       /\ D2Succeeded => trap_D2' = trap_D2]_vars

C10_Witness ==
    /\ SweepSucceeded
    /\ pc = "done"
    /\ Len(pols) = 2
    /\ Len(curves) = 4

\* the force array of a finished evaluation of object o on the grid vs
FullF(o, vs) ==
    [c \in 1..3 |->
        [n \in 1..Len(vs) |-> Evaluate(o, <<0, 0, 0>>, <<0, 0, vs[n]>>)[c]]]

\* the evaluation of the k-th label of pols has stored every grid point
Complete(k) ==
    /\ pols[k].key \in DOMAIN obe
    /\ "molasses" \in DOMAIN obe[pols[k].key].profile
    /\ obe[pols[k].key].profile["molasses"].F.data
         = FullF(obe[pols[k].key], vIn)

\* C11: the simulation object of a configuration exists only when the
\* evaluation of every earlier configuration has stored its whole grid, so
\* at most one evaluation is in progress at any time.
C11_Sequential ==
    nb = "two_three" =>
        \A j, k \in 1..Len(pols) :
            (j < k /\ pols[k].key \in DOMAIN obe) => Complete(j)

C11_Witness ==
    /\ nb = "two_three"
    /\ Len(pols) = 2
    /\ pc = "evaluating"
    /\ i = 1
    /\ it >= 1
    /\ it < GridSize
    /\ Complete(1)

\* C12 as stated: the iteration of one label reads nothing that the result
\* of another label was built from.
C12_NoSharedReads ==
    \A j, k \in DOMAIN reads : j # k => reads[j] \cap reads[k] = {}

\* C12: an iteration writes one fresh slot of the result mapping, its own,
\* and while the loop runs no step assigns pols, s, det, hamiltonian or v or
\* changes the slot of another label.
C12_WritesOwnSlotOnly ==
    [][(nb = "two_three" /\ pc \in {"loop", "call", "invoked", "evaluating"})
         => /\ <<pols, s, det, hamiltonian, v>>'
                 = <<pols, s, det, hamiltonian, v>>
            /\ \A l \in DOMAIN obe :
                 (pc = "loop" \/ l # CurKey)
                    => (l \in DOMAIN obe' /\ obe'[l] = obe[l])
            /\ (pc = "loop" /\ obe' # obe)
                 => /\ CurKey \notin DOMAIN obe
                    /\ DOMAIN obe' = DOMAIN obe \cup {CurKey}]_vars

C12_Witness ==
    /\ nb = "two_three"
    /\ Len(pols) = 2
    /\ Cardinality(DOMAIN obe) = 2
    /\ pc = "evaluating"
    /\ it >= 1
    /\ "hamiltonian" \in reads[pols[1].key] \cap reads[pols[2].key]

\* C13: the configuration mapping keeps its keys and the vectors under each
\* key through the sweep and the plot.
C13_PolsImmutable ==
    /\ [](\A k \in 1..Len(pols) : pols[k].pol = PolOf(pols[k].key))
    /\ [][pols' = pols]_vars

C13_Witness ==
    /\ nb = "two_three"
    /\ pc = "done"
    /\ Len(pols) = 2
    /\ pols[2].key = "$\\phi=\\pi/4$"
    /\ pols[2].pol = << <<1, 0, 0>>, <<1, 1, 0>> >>

\* C14: a profile is read only after the call that creates it has stored
\* its whole grid, under the name the call was given; the D2 plot uses the
\* extracted array, the sweep plot runs after the loop.
C14_ReadAfterCall ==
    /\ [](\A m \in 1..Len(calls) :
            calls[m].name = (IF nb = "two_three" THEN PlotProfileName
                             ELSE D2ReadName))
    /\ [][/\ (nb = "two_three" /\ Len(curves') > Len(curves))
               => /\ pc = "plot"
                  /\ i = Len(pols)
                  /\ errors = 0
                  /\ \A n \in (Len(curves) + 1)..Len(curves') :
                       \E k \in 1..Len(pols) :
                          /\ pols[k].key = curves'[n].label
                          /\ Cardinality(CallsOf(pols[k].key)) = 1
                          /\ Complete(k)
                          /\ curves'[n].y.data = FullF(obe[pols[k].key], vIn)[3]
          /\ (nb = "D2" /\ ~(pc = "evaluating" /\ pc' = "plot"))
               => Fz_D2' = Fz_D2
          /\ (nb = "D2" /\ pc = "evaluating" /\ pc' = "plot")
               => /\ it = GridSize
                  /\ Fz_D2' = FComp(trap_D2.profile[CurCall.name].F, 3)
          /\ (nb = "D2" /\ Len(curves') > Len(curves))
               => /\ pc = "plot"
                  /\ curves'[Len(curves')].y = Fz_D2
                  /\ curves'[Len(curves')].x = CurCall.V[3]]_vars

C14_Witness ==
    /\ nb = "D2"
    /\ pc = "done"
    /\ nameIn = "Fz"
    /\ vIn = D2V
    /\ Len(curves) = 1
    /\ curves[1].y = FComp(trap_D2.profile["Fz"].F, 3)

FirstLabelsStored ==
    /\ DOMAIN obe = {pols[k].key : k \in 1..(i + 1)}
    /\ \A k \in 1..i : Complete(k)

\* C15 as stated: at abort the failing label's entry holds no profile.
C15_FailingEntryNoProfile ==
    (nb = "two_three" /\ errors > 0) =>
        /\ FirstLabelsStored
        /\ "molasses" \notin DOMAIN obe[pols[i + 1].key].profile

\* C15: at abort the result mapping has the entries of the first k labels,
\* the first k-1 complete; the entry of the failing label holds either no
\* profile or one in which not every grid point has been stored.
C15_FailingEntryIncomplete ==
    (nb = "two_three" /\ errors > 0) =>
        /\ FirstLabelsStored
        /\ \/ "molasses" \notin DOMAIN obe[pols[i + 1].key].profile
           \/ it < GridSize

C15_Witness ==
    /\ nb = "two_three"
    /\ errors = 1
    /\ pc = "aborted"
    /\ Len(pols) = 2
    /\ i = 1
    /\ "molasses" \in DOMAIN obe[pols[2].key].profile
    /\ it >= 1

\* C16: the D2 run builds one simulation object, the rate-equation model
\* exactly when eq is "rateeq" and the OBE model otherwise, from the same
\* beams, field and Hamiltonian, and one evaluation follows.
C16_OneTrapByEq ==
    /\ []((nb = "D2" /\ pc # "start") =>
            /\ (eq = "rateeq" => trap_D2.model = "rateeq")
            /\ (eq # "rateeq" => trap_D2.model = "obe")
            /\ trap_D2.laserBeams = laserBeams_D2(1, -2)
            /\ trap_D2.magField = <<0, 0, 0>>
            /\ trap_D2.hamiltonian = hamiltonian_D2
            /\ trap_D2.include_mag_forces = FALSE
            /\ Len(calls) <= 1
            /\ (pc # "call" =>
                  /\ Len(calls) = 1
                  /\ calls[1].key = "trap_D2"
                  /\ calls[1].name = nameIn))
    /\ [][(nb = "D2" /\ pc # "start") =>
            /\ trap_D2'.model = trap_D2.model
            /\ trap_D2'.laserBeams = trap_D2.laserBeams
            /\ trap_D2'.hamiltonian = trap_D2.hamiltonian]_vars

C16_Witness ==
    /\ nb = "D2"
    /\ pc = "done"
    /\ eq = "OBE"
    /\ trap_D2.model = "obe"
    /\ nameIn = "Fz"
    /\ Len(calls) = 1

\* C18: in every generate_force_profile call the six component arrays have
\* one shape and the x and y components of position and velocity are zero.
C18_ShapesAndZeros ==
    \A n \in 1..Len(calls) :
        /\ \A c \in 1..3 :
             /\ calls[n].R[c].shape = calls[n].V[3].shape
             /\ calls[n].V[c].shape = calls[n].V[3].shape
             /\ Len(calls[n].R[c].data) = Prod(calls[n].V[3].shape)
             /\ Len(calls[n].V[c].data) = Prod(calls[n].V[3].shape)
        /\ \A c \in 1..2 :
             \A m \in 1..Prod(calls[n].V[3].shape) :
                 calls[n].R[c].data[m] = 0 /\ calls[n].V[c].data[m] = 0

C18_Witness ==
    /\ nb = "D2"
    /\ Len(calls) = 1
    /\ Len(xIn) = 2
    /\ vIn = D2V
    /\ calls[1].R[3].data[2] # 0
    /\ calls[1].V[3].data[1] # 0

\* C17: return_lasers builds two beams, along +z and -z, with the detuning
\* and saturation parameter it was given and one polarization coordinate
\* system, 'spherical' exactly when the second or third component of the
\* first polarization is positive, whatever the second polarization is.
C17_TwoBeams ==
    (nb = "return_lasers" /\ pc = "done") =>
        /\ Len(laserBeams) = 2
        /\ laserBeams[1].kvec = <<0, 0, 1>>
        /\ laserBeams[2].kvec = <<0, 0, -1>>
        /\ \A b \in 1..2 :
             /\ laserBeams[b].delta = det
             /\ laserBeams[b].s = s
             /\ laserBeams[b].pol = pols[1].pol[b]
             /\ laserBeams[b].pol_coord \in {"spherical", "cartesian"}
             /\ (laserBeams[b].pol_coord = "spherical"
                   <=> (pols[1].pol[1][2] > 0 \/ pols[1].pol[1][3] > 0))

C17_Witness ==
    /\ nb = "return_lasers"
    /\ pc = "done"
    /\ pols[1].pol = << <<1, 0, -1>>, <<0, 1, 1>> >>
    /\ laserBeams[1].pol_coord = "cartesian"
    /\ laserBeams[2].pol_coord = "cartesian"

\* C19: with an evaluation that always returns, a started sweep reaches the
\* plot cell with every label evaluated, after Len(pols) iterations.
C19_Terminates ==
    (nb = "two_three" /\ pc = "start")
        ~> (/\ pc = "plot"
            /\ i = Len(pols)
            /\ Len(calls) = Len(pols)
            /\ \A k \in 1..Len(pols) : Complete(k))

C19_Witness ==
    /\ nb = "two_three"
    /\ pc = "plot"
    /\ errors = 0
    /\ Len(pols) = 2
    /\ i = 2
    /\ Len(calls) = 2
    /\ vIn = SweepV

====
